---- MODULE Spec2Model ----
(***************************************************************************)
(* A model of the grain price pipeline:                                    *)
(*   04_build_prices_csv.py  find_exchange_rate, build_prices_csv          *)
(*   05_sanitize_csv.py      sanitize_csv                                  *)
(*   06_merge_events.py      merge_events                                  *)
(* Each script is a one-shot batch program; each has its own               *)
(* specification (SpecSanitize, SpecAlign, SpecBuild, SpecMerge) over the  *)
(* variables of that script, the other scripts' variables staying idle.    *)
(***************************************************************************)
EXTENDS Integers, Sequences, FiniteSets, TLC

VARIABLES
    \* ---- 05_sanitize_csv.py ----
    all_rows,         \* list(reader): the data rows of the input CSV
    i,                \* the index of enumerate(all_rows), 0-based as in the code
    rows_to_keep,     \* the rows kept so far
    discarded_count,  \* the summary counter
    total_rows,       \* the summary counter
    warnings,         \* the WARNING blocks printed, one per discarded row
    outfile,          \* the rows written to the output file
    spc,              \* where sanitize_csv is: "idle", "loop", "done"
    \* ---- 04_build_prices_csv.py, find_exchange_rate ----
    exchange_rates,   \* date string -> rate
    lookup_date,      \* the date_str find_exchange_rate was called with
    lookup_result,    \* what it returned
    apc,              \* "idle", "ready", "called"
    \* ---- 04_build_prices_csv.py, build_prices_csv ----
    date_str,         \* the date of the current loop iteration
    date_data,        \* prices_data['pizarra'][date_str]
    csv_rows,         \* the rows written to prices.csv
    notices,          \* the dates of the "No exchange rate found" lines
    bpc,              \* "idle", "loop", "done"
    \* ---- 06_merge_events.py ----
    regular_events,   \* events_regular.json, in file order
    special_events,   \* events_special.json
    current_year,     \* datetime.now().year
    all_events,       \* the merged dictionary
    year,             \* the year of the outer loop
    mpc               \* "idle", "start", "years", "done"

sanitize_vars == <<all_rows, i, rows_to_keep, discarded_count, total_rows, warnings, outfile, spc>>
align_vars == <<lookup_date, lookup_result, apc>>
build_vars == <<date_str, date_data, csv_rows, notices, bpc>>
merge_vars == <<regular_events, special_events, current_year, all_events, year, mpc>>
vars == <<sanitize_vars, exchange_rates, align_vars, build_vars, merge_vars>>

\* What each script leaves alone.
not_sanitize == <<exchange_rates, align_vars, build_vars, merge_vars>>
not_align == <<sanitize_vars, build_vars, merge_vars>>
not_build == <<sanitize_vars, align_vars, merge_vars>>
not_merge == <<sanitize_vars, exchange_rates, align_vars, build_vars>>

\* None of Python, and a value that is not None (an Optional result).
None == [none |-> TRUE]
Some(x) == [some |-> x]

Abs(x) == IF x < 0 THEN -x ELSE x

(***************************************************************************)
(* 05_sanitize_csv.py                                                      *)
(***************************************************************************)

\* The longest input series drawn.
MaxLen == 4

OUTLIER_THRESHOLD_PERCENTAGE == 50

\* The header of the CSV: the date column and the numeric columns drawn.
fieldnames == <<"fecha", "maiz_ars", "trigo_ars">>

\* A CSV cell is text: num says whether float() accepts it, v is the number it
\* reads as (for a text float() refuses, v only tells texts apart).
Num(n) == [num |-> TRUE, v |-> n]
Txt(n) == [num |-> FALSE, v |-> n]

\* float(cell) raises ValueError (TypeError for a missing cell) or returns.
FloatRaises(cell) == ~cell.num
float(cell) == cell.v

is_numeric_column(column_name) == column_name # "fecha"

numeric_columns == SelectSeq(fieldnames, is_numeric_column)

\* The quotient as an exact fraction num/den, or infinity. For the small whole
\* numbers drawn, the float quotient is on the same side of 50.0 as the fraction.
calculate_percentage_difference(current, previous) ==
    IF previous = 0
    THEN IF current # 0 THEN [inf |-> TRUE, num |-> 0, den |-> 1]
                        ELSE [inf |-> FALSE, num |-> 0, den |-> 1]
    ELSE [inf |-> FALSE, num |-> Abs(current - previous) * 100, den |-> Abs(previous)]

\* diff_percentage > OUTLIER_THRESHOLD_PERCENTAGE
ExceedsThreshold(diff) ==
    diff.inf \/ diff.num > OUTLIER_THRESHOLD_PERCENTAGE * diff.den

\* all_rows[k] with the code's 0-based index.
RowAt(rows, k) == rows[k + 1]

\* A variant comparing the distances the other way round.
NextConfirmsSwapped(current_value, previous_value, next_value) ==
    Abs(previous_value - next_value) <= Abs(current_value - next_value)

\* A variant in which a tie does not count as sustained.
NextConfirmsStrict(current_value, previous_value, next_value) ==
    Abs(current_value - next_value) < Abs(previous_value - next_value)

\* diff_current_to_next <= diff_previous_to_next
NextConfirms(current_value, previous_value, next_value) ==
    Abs(current_value - next_value) <= Abs(previous_value - next_value)

RECURSIVE LookAhead(_, _, _, _, _, _)
\* for j in range(1, 3): ... ; the value of is_sustained_change after the loop
LookAhead(rows, k, col, current_value, previous_value, j) ==
    IF j >= 3 THEN FALSE
    ELSE IF k + j < Len(rows)
         THEN LET cell == RowAt(rows, k + j)[col] IN
              IF FloatRaises(cell)
              THEN LookAhead(rows, k, col, current_value, previous_value, j + 1)
              ELSE IF NextConfirms(current_value, previous_value, float(cell))
                   THEN TRUE
                   ELSE LookAhead(rows, k, col, current_value, previous_value, j + 1)
         ELSE LookAhead(rows, k, col, current_value, previous_value, j + 1)

\* A variant that takes a change with no row after it as sustained.
SustainedOrNoCandidate(rows, k, col, current_value, previous_value) ==
    \/ k + 1 >= Len(rows)
    \/ LookAhead(rows, k, col, current_value, previous_value, 1)

is_sustained_change(rows, k, col, current_value, previous_value) ==
    LookAhead(rows, k, col, current_value, previous_value, 1)

\* A variant that compares with the last row kept.
LastKeptRow(rows, kept, k) == kept[Len(kept)]

\* previous_row = all_rows[i - 1]
previous_row(rows, kept, k) == RowAt(rows, k - 1)

\* The state of the column loop: is_outlier and outlier_details.
NoOutlier == [is_outlier |-> FALSE, outlier_details |-> <<>>]

RECURSIVE CheckColumns(_, _, _, _, _, _)
RECURSIVE SkipColumn(_, _, _, _, _, _)

\* A variant in which the ValueError ends the column loop.
AbortColumns(rows, kept, k, cols, c, acc) == acc

\* except (ValueError, TypeError): continue
SkipColumn(rows, kept, k, cols, c, acc) ==
    CheckColumns(rows, kept, k, cols, c + 1, acc)

\* for col in numeric_columns: ... from column number c on
CheckColumns(rows, kept, k, cols, c, acc) ==
    IF c > Len(cols) THEN acc
    ELSE LET col == cols[c]
             cur == RowAt(rows, k)[col]
             prev == previous_row(rows, kept, k)[col]
         IN  IF FloatRaises(cur) \/ FloatRaises(prev)
             THEN SkipColumn(rows, kept, k, cols, c, acc)
             ELSE LET current_value == float(cur)
                      previous_value == float(prev)
                      diff_percentage ==
                          calculate_percentage_difference(current_value, previous_value)
                  IN  IF /\ ExceedsThreshold(diff_percentage)
                         /\ ~is_sustained_change(rows, k, col, current_value, previous_value)
                      THEN CheckColumns(rows, kept, k, cols, c + 1,
                               [is_outlier |-> TRUE,
                                outlier_details |-> Append(acc.outlier_details, col)])
                      ELSE CheckColumns(rows, kept, k, cols, c + 1, acc)

\* A variant that discards only when every numeric column is offending.
EveryColumnOutlier(acc) == Len(acc.outlier_details) = Len(numeric_columns)

\* if is_outlier:
RowIsOutlier(acc) == acc.is_outlier

\* The verdict of the loop body on row i.
Verdict == CheckColumns(all_rows, rows_to_keep, i, numeric_columns, 1, NoOutlier)

\* The values a numeric column takes in the input drawn.
MaizValues == {Num(0), Num(100), Num(200), Txt(0)}
TrigoValues == {Num(100), Num(200)}

\* The row of position k (1-based) of a drawn series: its date is its own.
MakeRow(k, m, t) == [fecha |-> Txt(k), maiz_ars |-> m, trigo_ars |-> t]

\* The series of n rows with the given values of the two columns.
MakeSeries(n, ms, ts) == [k \in 1..n |-> MakeRow(k, ms[k], ts[k])]

\* The series of the documented scenario: [100, 100, 100, 200, 100, 100].
ScenarioValues == <<100, 100, 100, 200, 100, 100>>
ScenarioSeries == [k \in 1..6 |-> MakeRow(k, Num(ScenarioValues[k]), Num(100))]

\* The input drawn: any series of up to MaxLen rows, or the scenario.
IsInputSeries(rows) ==
    \/ \E n \in 0..MaxLen :
         \E ms \in [1..n -> MaizValues], ts \in [1..n -> TrigoValues] :
            rows = MakeSeries(n, ms, ts)
    \/ rows = ScenarioSeries

SanitizeIdle ==
    /\ all_rows = <<>> /\ i = 0 /\ rows_to_keep = <<>> /\ discarded_count = 0
    /\ total_rows = 0 /\ warnings = <<>> /\ outfile = None /\ spc = "idle"

SanitizeInit ==
    /\ IsInputSeries(all_rows)
    /\ i = 0
    /\ rows_to_keep = <<>>
    /\ discarded_count = 0
    /\ total_rows = 0
    /\ warnings = <<>>
    /\ outfile = None
    /\ spc = "loop"

\* if i == 0: rows_to_keep.append(row); continue
KeepFirstRow ==
    /\ spc = "loop" /\ i < Len(all_rows) /\ i = 0
    /\ total_rows' = total_rows + 1
    /\ rows_to_keep' = Append(rows_to_keep, RowAt(all_rows, i))
    /\ i' = i + 1
    /\ UNCHANGED <<all_rows, discarded_count, warnings, outfile, spc>>
    /\ UNCHANGED not_sanitize

\* A variant that prints the warning and does not count the row.
DiscardRowUncounted ==
    /\ spc = "loop" /\ i < Len(all_rows) /\ i # 0
    /\ RowIsOutlier(Verdict)
    /\ total_rows' = total_rows + 1
    /\ warnings' = Append(warnings, [row_num |-> i + 2,
                                     fecha |-> RowAt(all_rows, i)["fecha"],
                                     details |-> Verdict.outlier_details])
    /\ i' = i + 1
    /\ UNCHANGED <<all_rows, rows_to_keep, discarded_count, outfile, spc>>
    /\ UNCHANGED not_sanitize

\* if is_outlier: discarded_count += 1; print the warning
DiscardRow ==
    /\ spc = "loop" /\ i < Len(all_rows) /\ i # 0
    /\ RowIsOutlier(Verdict)
    /\ total_rows' = total_rows + 1
    /\ discarded_count' = discarded_count + 1
    /\ warnings' = Append(warnings, [row_num |-> i + 2,
                                     fecha |-> RowAt(all_rows, i)["fecha"],
                                     details |-> Verdict.outlier_details])
    /\ i' = i + 1
    /\ UNCHANGED <<all_rows, rows_to_keep, outfile, spc>>
    /\ UNCHANGED not_sanitize

\* else: rows_to_keep.append(row)
KeepRow ==
    /\ spc = "loop" /\ i < Len(all_rows) /\ i # 0
    /\ ~RowIsOutlier(Verdict)
    /\ total_rows' = total_rows + 1
    /\ rows_to_keep' = Append(rows_to_keep, RowAt(all_rows, i))
    /\ i' = i + 1
    /\ UNCHANGED <<all_rows, discarded_count, warnings, outfile, spc>>
    /\ UNCHANGED not_sanitize

\* writer.writerows(rows_to_keep) and the summary
WriteOutput ==
    /\ spc = "loop" /\ i = Len(all_rows)
    /\ outfile' = rows_to_keep
    /\ spc' = "done"
    /\ UNCHANGED <<all_rows, i, rows_to_keep, discarded_count, total_rows, warnings>>
    /\ UNCHANGED not_sanitize


(***************************************************************************)
(* 04_build_prices_csv.py                                                  *)
(***************************************************************************)

\* A date string 'YYYY-MM-DD' is the tuple of its three zero-padded fields.
\* (Every date the scripts write is strftime('%Y-%m-%d'); a key with an unpadded
\* field would sort as a string out of calendar order and is not drawn.)
\* The dates a run may meet, and how many of them are drawn.
AllDates == << <<2018, 6, 30>>, <<2018, 7, 1>>, <<2018, 7, 2>>, <<2018, 12, 31>>,
               <<2019, 1, 1>>, <<2019, 1, 2>>, <<2019, 2, 1>> >>
NumDates == 5
Dates == { AllDates[k] : k \in 1..NumDates }

START_DATE == <<2018, 7, 1>>

\* a < b on strings of zero-padded fields: field by field, left to right.
StrLess(a, b) ==
    \/ a[1] < b[1]
    \/ a[1] = b[1] /\ a[2] < b[2]
    \/ a[1] = b[1] /\ a[2] = b[2] /\ a[3] < b[3]

\* datetime.strptime(s, '%Y-%m-%d'): the day, as a number that orders as the
\* calendar does.
strptime(s) == s[1] * 372 + (s[2] - 1) * 31 + s[3]

RECURSIVE sorted(_)
\* sorted(keys): ascending in string order.
sorted(S) ==
    IF S = {} THEN <<>>
    ELSE LET m == CHOOSE x \in S : \A y \in S : y = x \/ StrLess(x, y)
         IN  <<m>> \o sorted(S \ {m})

RECURSIVE ScanBack(_, _, _, _)
\* for exchange_date_str in reversed(sorted_dates): ... ; return None
ScanBack(rates, sorted_dates, n, target_date) ==
    IF n = 0 THEN None
    ELSE IF strptime(sorted_dates[n]) <= target_date
         THEN Some(rates[sorted_dates[n]])
         ELSE ScanBack(rates, sorted_dates, n - 1, target_date)

RECURSIVE ScanForward(_, _, _, _)
ScanForward(rates, sorted_dates, n, target_date) ==
    IF n > Len(sorted_dates) THEN None
    ELSE IF strptime(sorted_dates[n]) <= target_date
         THEN Some(rates[sorted_dates[n]])
         ELSE ScanForward(rates, sorted_dates, n + 1, target_date)

\* A variant that scans the sorted dates without reversing them.
find_exchange_rate_unreversed(d, rates) ==
    IF d \in DOMAIN rates THEN Some(rates[d])
    ELSE ScanForward(rates, sorted(DOMAIN rates), 1, strptime(d))

find_exchange_rate(d, rates) ==
    IF d \in DOMAIN rates THEN Some(rates[d])
    ELSE LET sorted_dates == sorted(DOMAIN rates)
         IN  ScanBack(rates, sorted_dates, Len(sorted_dates), strptime(d))

RateValues == {40, 70}

\* Every sparse mapping of the dates drawn to a positive rate.
RateMaps == UNION { [S -> RateValues] : S \in SUBSET Dates }

AlignIdle == lookup_date = None /\ lookup_result = None /\ apc = "idle"

AlignInit ==
    /\ exchange_rates \in RateMaps
    /\ lookup_date = None
    /\ lookup_result = None
    /\ apc = "ready"

\* A call find_exchange_rate(d, exchange_rates).
FindExchangeRate ==
    /\ apc = "ready"
    /\ \E d \in Dates :
         /\ lookup_date' = d
         /\ lookup_result' = find_exchange_rate(d, exchange_rates)
    /\ apc' = "called"
    /\ UNCHANGED exchange_rates
    /\ UNCHANGED not_align

cereals == <<"maiz", "trigo", "soja">>

\* float(price_str) of the price strings drawn; "abc" raises ValueError.
PriceRaises(price_str) == price_str = "abc"
PriceFloat(price_str) ==
    CASE price_str = "0.00" -> 0
      [] price_str = "0" -> 0
      [] price_str = "80" -> 80
      [] price_str = "120" -> 120
      [] price_str = "-5" -> -5

\* d.get(key, default)
Get(d, key, default) == IF key \in DOMAIN d THEN d[key] ELSE default

\* The entries of one cereal on one date in prices_ggsa.json.
MaizData ==
    { [precio |-> "120"], [precio |-> "0.00", estimativo |-> "80"],
      [estimativo |-> "80"], [precio |-> "0.00"], [precio |-> "0", estimativo |-> "80"],
      [precio |-> "abc"], [precio |-> "-5"] }
TrigoData == { [precio |-> "120"], [precio |-> "0.00", estimativo |-> "0.00"] }
SojaData == { [precio |-> "120"], [precio |-> "0"] }
CerealData(cereal) ==
    CASE cereal = "maiz" -> MaizData
      [] cereal = "trigo" -> TrigoData
      [] cereal = "soja" -> SojaData

\* Every pizarra entry of one date: any of the cereals may be absent.
DateDataSet ==
    UNION { { f \in [S -> MaizData \cup TrigoData \cup SojaData] :
                \A c \in S : f[c] \in CerealData(c) } :
            S \in SUBSET {"maiz", "trigo", "soja"} }

\* price_str of one cereal entry: precio, or estimativo when precio is '0.00'.
PriceStr(cereal_data) ==
    LET precio == Get(cereal_data, "precio", "0.00")
    IN  IF precio = "0.00" THEN Get(cereal_data, "estimativo", "0.00") ELSE precio

\* try: price_ars = float(price_str); if price_ars > 0: ... except: continue
PriceIncluded(price_str) == ~PriceRaises(price_str) /\ PriceFloat(price_str) > 0

\* date_prices of extract_cereal_prices_by_date for one date.
DatePrices(data) ==
    LET kept == { c \in DOMAIN data : PriceIncluded(PriceStr(data[c])) }
    IN  [c \in kept |-> PriceFloat(PriceStr(data[c]))]

\* A variant that skips a row only when every cereal price is zero.
AllPricesZero(maiz_ars, trigo_ars, soja_ars) ==
    maiz_ars = 0 /\ trigo_ars = 0 /\ soja_ars = 0

\* if maiz_ars == 0 or trigo_ars == 0 or soja_ars == 0
AnyPriceZero(maiz_ars, trigo_ars, soja_ars) ==
    maiz_ars = 0 \/ trigo_ars = 0 \/ soja_ars = 0

\* round(price / rate, 2), in hundredths, halves to the even neighbour.
Round2(price, rate) ==
    LET n == 100 * price
        q == n \div rate
        r == n % rate
    IN  IF 2 * r > rate \/ (2 * r = rate /\ q % 2 = 1) THEN q + 1 ELSE q

BuildIdle ==
    /\ date_str = None /\ date_data = None /\ csv_rows = <<>> /\ notices = <<>>
    /\ bpc = "idle"

\* The dates of prices_ggsa.json drawn for a build.
NumBuildDates == 3
BuildDates == { AllDates[k] : k \in 1..NumBuildDates }

\* The rate mappings drawn for a build: any of those dates, at one rate.
BuildRateMaps == { [d \in S |-> r] : S \in SUBSET BuildDates, r \in RateValues }

BuildInit ==
    /\ exchange_rates \in BuildRateMaps
    /\ date_str = None
    /\ date_data = None
    /\ csv_rows = <<>>
    /\ notices = <<>>
    /\ bpc = "loop"

\* The next date of prices_data in ascending order, with its entry.
NextDate(d, data) ==
    /\ bpc = "loop"
    /\ d \in BuildDates /\ data \in DateDataSet
    /\ IF date_str = None THEN TRUE ELSE StrLess(date_str, d)
    /\ date_str' = d
    /\ date_data' = data

\* A date without any positive cereal price is not in prices_by_date.
AbsentDate ==
    /\ \E d \in BuildDates, data \in DateDataSet :
         /\ NextDate(d, data)
         /\ DOMAIN DatePrices(data) = {}
    /\ UNCHANGED <<exchange_rates, csv_rows, notices, bpc>>
    /\ UNCHANGED not_build

\* if date_str < START_DATE: continue
BeforeStart ==
    /\ \E d \in BuildDates, data \in DateDataSet :
         /\ NextDate(d, data)
         /\ DOMAIN DatePrices(data) # {}
         /\ StrLess(d, START_DATE)
    /\ UNCHANGED <<exchange_rates, csv_rows, notices, bpc>>
    /\ UNCHANGED not_build

\* else: print("Warning: No exchange rate found ...")
NoRate ==
    /\ \E d \in BuildDates, data \in DateDataSet :
         /\ NextDate(d, data)
         /\ DOMAIN DatePrices(data) # {}
         /\ ~StrLess(d, START_DATE)
         /\ find_exchange_rate(d, exchange_rates) = None
         /\ notices' = Append(notices, d)
    /\ UNCHANGED <<exchange_rates, csv_rows, bpc>>
    /\ UNCHANGED not_build

\* The three prices of a date: date_prices.get(cereal, 0).
Prices(data) == [c \in {"maiz", "trigo", "soja"} |-> Get(DatePrices(data), c, 0)]

\* Skip rows where any cereal price is zero.
IncompleteRow ==
    /\ \E d \in BuildDates, data \in DateDataSet :
         /\ NextDate(d, data)
         /\ DOMAIN DatePrices(data) # {}
         /\ ~StrLess(d, START_DATE)
         /\ find_exchange_rate(d, exchange_rates) # None
         /\ AnyPriceZero(Prices(data)["maiz"], Prices(data)["trigo"], Prices(data)["soja"])
    /\ UNCHANGED <<exchange_rates, csv_rows, notices, bpc>>
    /\ UNCHANGED not_build

\* writer.writerow([...])
WriteRow ==
    /\ \E d \in BuildDates, data \in DateDataSet :
         LET found == find_exchange_rate(d, exchange_rates)
             exchange_rate == found.some
             p == Prices(data)
         IN  /\ NextDate(d, data)
             /\ DOMAIN DatePrices(data) # {}
             /\ ~StrLess(d, START_DATE)
             /\ found # None
             /\ ~AnyPriceZero(p["maiz"], p["trigo"], p["soja"])
             /\ csv_rows' = Append(csv_rows,
                    [fecha |-> d, maiz_ars |-> p["maiz"], trigo_ars |-> p["trigo"],
                     soja_ars |-> p["soja"], tipo_cambio_usd |-> exchange_rate,
                     maiz_usd |-> Round2(p["maiz"], exchange_rate),
                     trigo_usd |-> Round2(p["trigo"], exchange_rate),
                     soja_usd |-> Round2(p["soja"], exchange_rate)])
    /\ UNCHANGED <<exchange_rates, notices, bpc>>
    /\ UNCHANGED not_build

\* The loop over sorted_dates ends.
FinishBuild ==
    /\ bpc = "loop"
    /\ bpc' = "done"
    /\ UNCHANGED <<exchange_rates, date_str, date_data, csv_rows, notices>>
    /\ UNCHANGED not_build


(***************************************************************************)
(* 06_merge_events.py                                                      *)
(***************************************************************************)

\* A number written in a date string is its digits: "5" is <<5>>, "05" is <<0, 5>>.
\* s.zfill(2)
zfill2(s) == IF Len(s) < 2 THEN <<0>> \o s ELSE s

FIRST_YEAR == 2018

\* The years a run may fall in: FIRST_YEAR .. FIRST_YEAR + MaxYears - 1.
MaxYears == 2

\* The most regular events drawn.
MaxRegular == 2

\* Keys 'DD-MM' of events_regular.json as <<day, month>>: "25-5", "25-05", "1-1".
RegularKeys == { << <<2, 5>>, <<5>> >>, << <<2, 5>>, <<0, 5>> >>, << <<1>>, <<1>> >> }

\* Keys 'YYYY-MM-DD' of events_special.json as <<year, month, day>>.
SpecialKeys ==
    { <<FIRST_YEAR - 1, <<0, 5>>, <<2, 5>> >>, <<FIRST_YEAR, <<0, 5>>, <<2, 5>> >>,
      <<FIRST_YEAR + 1, <<0, 1>>, <<0, 1>> >>, <<FIRST_YEAR + 1, <<1, 2>>, <<0, 8>> >> }

RegularDescriptions == {"feriado", "cosecha"}
SpecialDescriptions == {"paro", "feriado"}

\* events_regular.json: a dictionary in file order, its keys distinct.
RegularFiles ==
    UNION { { f \in [1..n -> RegularKeys \X RegularDescriptions] :
                \A a, b \in 1..n : a # b => f[a][1] # f[b][1] } :
            n \in 0..MaxRegular }

SpecialFiles == UNION { [S -> SpecialDescriptions] : S \in SUBSET SpecialKeys }

\* f"{year}-{month.zfill(2)}-{day.zfill(2)}" of date_key.split('-')
full_date(y, date_key) == <<y, zfill2(date_key[2]), zfill2(date_key[1])>>

\* d[key] = value
SetItem(d, key, value) ==
    [x \in DOMAIN d \cup {key} |-> IF x = key THEN value ELSE d[x]]

RECURSIVE DuplicateRegular(_, _, _, _)
\* for date_key, event_description in regular_events.items(): ... from entry n on
DuplicateRegular(events, regular, y, n) ==
    IF n > Len(regular) THEN events
    ELSE DuplicateRegular(SetItem(events, full_date(y, regular[n][1]), regular[n][2]),
                          regular, y, n + 1)

MergeIdle ==
    /\ regular_events = <<>> /\ special_events = <<>> /\ current_year = FIRST_YEAR
    /\ all_events = <<>> /\ year = FIRST_YEAR /\ mpc = "idle"

MergeInit ==
    /\ regular_events \in RegularFiles
    /\ special_events \in SpecialFiles
    /\ current_year \in FIRST_YEAR..(FIRST_YEAR + MaxYears - 1)
    /\ all_events = <<>>
    /\ year = FIRST_YEAR
    /\ mpc = "start"

\* all_events = {}; all_events.update(special_events)
CopySpecial ==
    /\ mpc = "start"
    /\ all_events' = special_events
    /\ mpc' = "years"
    /\ UNCHANGED <<regular_events, special_events, current_year, year>>
    /\ UNCHANGED not_merge

\* One round of: for year in range(2018, current_year + 1)
DuplicateYear ==
    /\ mpc = "years" /\ year < current_year + 1
    /\ all_events' = DuplicateRegular(all_events, regular_events, year, 1)
    /\ year' = year + 1
    /\ UNCHANGED <<regular_events, special_events, current_year, mpc>>
    /\ UNCHANGED not_merge

\* json.dump(all_events, f, ...)
WriteEvents ==
    /\ mpc = "years" /\ year >= current_year + 1
    /\ mpc' = "done"
    /\ UNCHANGED <<regular_events, special_events, current_year, all_events, year>>
    /\ UNCHANGED not_merge

(***************************************************************************)
(* The specifications                                                      *)
(***************************************************************************)

SanitizeNext == KeepFirstRow \/ DiscardRow \/ KeepRow \/ WriteOutput

InitSanitize ==
    SanitizeInit /\ exchange_rates = <<>> /\ AlignIdle /\ BuildIdle /\ MergeIdle

SpecSanitize == InitSanitize /\ [][SanitizeNext]_vars

AlignNext == FindExchangeRate

InitAlign == AlignInit /\ SanitizeIdle /\ BuildIdle /\ MergeIdle

SpecAlign == InitAlign /\ [][AlignNext]_vars

BuildNext == AbsentDate \/ BeforeStart \/ NoRate \/ IncompleteRow \/ WriteRow \/ FinishBuild

InitBuild == BuildInit /\ SanitizeIdle /\ AlignIdle /\ MergeIdle

SpecBuild == InitBuild /\ [][BuildNext]_vars

MergeNext == CopySpecial \/ DuplicateYear \/ WriteEvents

InitMerge ==
    MergeInit /\ exchange_rates = <<>> /\ SanitizeIdle /\ AlignIdle /\ BuildIdle

SpecMerge == InitMerge /\ [][MergeNext]_vars


(***************************************************************************)
(* Properties of sanitize_csv (under SpecSanitize)                         *)
(***************************************************************************)

\* The numeric columns of the header.
NumericCols == { fieldnames[n] : n \in 1..Len(fieldnames) } \ {"fecha"}

\* Row k (0-based, k >= 1) has been through the loop body.
Processed(k) == 1 <= k /\ k < i

\* Row k was reported as discarded / is among the rows kept.
Discarded(k) == \E w \in 1..Len(warnings) : warnings[w].fecha = RowAt(all_rows, k)["fecha"]
Kept(k) == \E r \in 1..Len(rows_to_keep) : rows_to_keep[r] = RowAt(all_rows, k)

\* The columns the warning of row k lists.
DetailsOf(k) ==
    UNION { { warnings[w].details[n] : n \in 1..Len(warnings[w].details) } :
            w \in { x \in 1..Len(warnings) :
                      warnings[x].fecha = RowAt(all_rows, k)["fecha"] } }

Parses(k, col) == RowAt(all_rows, k)[col].num
Val(k, col) == RowAt(all_rows, k)[col].v

\* c differs from p by more than 50 percent of p.
Over50(c, p) == IF p = 0 THEN c # 0 ELSE 2 * Abs(c - p) > Abs(p)

\* The column jumps at row k, measured from the original row k - 1.
Jump(k, col) ==
    /\ Parses(k, col) /\ Parses(k - 1, col)
    /\ Over50(Val(k, col), Val(k - 1, col))

\* Row k + j exists, parses, and is no farther from row k than from row k - 1.
Confirms(k, col, j) ==
    /\ k + j < Len(all_rows) /\ Parses(k + j, col)
    /\ Abs(Val(k, col) - Val(k + j, col)) <= Abs(Val(k - 1, col) - Val(k + j, col))

\* The column is an isolated outlier at row k: a jump no later row confirms.
FieldIsolated(k, col) == Jump(k, col) /\ \A j \in 1..2 : ~Confirms(k, col, j)

LastRow == Len(all_rows) - 1

FinalJump ==
    /\ spc = "done" /\ Len(all_rows) >= 2
    /\ \E col \in NumericCols : Jump(LastRow, col)

Spike(k, col) ==
    /\ Processed(k) /\ k + 1 < Len(all_rows)
    /\ Parses(k - 1, col) /\ Parses(k, col) /\ Parses(k + 1, col)
    /\ Val(k - 1, col) > 0
    /\ Val(k, col) = 2 * Val(k - 1, col)
    /\ Val(k + 1, col) = Val(k - 1, col)

\* The rows kept of the documented scenario: all but the one of index 3.
ScenarioKept ==
    (spc = "done" /\ all_rows = ScenarioSeries) =>
        /\ [r \in 1..Len(outfile) |-> outfile[r]["maiz_ars"].v] = <<100, 100, 100, 100, 100>>
        /\ [r \in 1..Len(outfile) |-> outfile[r]["fecha"].v] = <<1, 2, 3, 5, 6>>

\* C2 as stated: a field that doubles at record i and is back at its old value at
\* record i+1 has record i discarded, whatever record i+2 holds.
C2_SpikeDiscarded ==
    /\ \A k \in 1..Len(all_rows), col \in NumericCols : Spike(k, col) => Discarded(k)
    /\ ScenarioKept

\* C2 amended: ... has record i discarded provided record i+2, when it exists and
\* parses, is strictly nearer the old value than the doubled one; the scenario
\* [100,100,100,200,100,100] keeps [100,100,100,100,100].
C2_SpikeDiscardedUnlessConfirmed ==
    /\ \A k \in 1..Len(all_rows), col \in NumericCols :
         (Spike(k, col) /\ ~Confirms(k, col, 2)) => (Discarded(k) /\ ~Kept(k))
    /\ ScenarioKept

C2_Witness ==
    \E k \in 1..Len(all_rows), col \in NumericCols :
        /\ Spike(k, col) /\ k + 2 < Len(all_rows) /\ Parses(k + 2, col)
        /\ ~Confirms(k, col, 2) /\ Discarded(k)

\* C3: a field that jumps at record i and has one of the existing records i+1, i+2
\* at a value no farther from the new value than from the old one (a tie counts) is
\* not reported as an outlier of record i; a record whose every jump is so
\* confirmed is kept.
C3_SustainedNotOutlier ==
    \A k \in 1..Len(all_rows) : Processed(k) =>
        /\ \A col \in NumericCols :
             (Jump(k, col) /\ \E j \in 1..2 : Confirms(k, col, j)) => col \notin DetailsOf(k)
        /\ (\A col \in NumericCols : Jump(k, col) => \E j \in 1..2 : Confirms(k, col, j))
             => Kept(k)

\* A jump confirmed only by a tie, in a record that is kept.
C3_Witness ==
    \E k \in 1..Len(all_rows), col \in NumericCols :
        /\ Processed(k) /\ Jump(k, col) /\ Kept(k)
        /\ \E j \in 1..2 : Confirms(k, col, j)
        /\ \A j \in 1..2 : Confirms(k, col, j) =>
               Abs(Val(k, col) - Val(k + j, col)) = Abs(Val(k - 1, col) - Val(k + j, col))

\* The original records i-1 .. i+2 around record k, as far as they exist.
Window(k) == SubSeq(all_rows, k, IF k + 3 < Len(all_rows) THEN k + 3 ELSE Len(all_rows))

\* The verdict read off a window alone: w[1] is the record before, w[2] the record.
WindowIsolated(w) ==
    \E col \in NumericCols :
        /\ w[1][col].num /\ w[2][col].num
        /\ Over50(w[2][col].v, w[1][col].v)
        /\ \A n \in 3..Len(w) :
             w[n][col].num =>
                Abs(w[2][col].v - w[n][col].v) > Abs(w[1][col].v - w[n][col].v)

\* C4: whether record i is kept or discarded is a function of the original records
\* i-1 .. i+2 alone, also when record i-1 was itself discarded.
C4_NoCascade ==
    \A k \in 1..Len(all_rows) : Processed(k) =>
        /\ Discarded(k) <=> WindowIsolated(Window(k))
        /\ Kept(k) <=> ~WindowIsolated(Window(k))

\* A record kept after a jump from a record that was itself discarded.
C4_Witness ==
    \E k \in 2..Len(all_rows), col \in NumericCols :
        Processed(k) /\ Discarded(k - 1) /\ Jump(k, col) /\ Kept(k)

\* C5: the kept rows and the discarded count add up to the rows processed, each
\* processed row is either kept or reported, never both, and the first row is kept.
C5_Accounting ==
    /\ Len(rows_to_keep) + discarded_count = total_rows
    /\ discarded_count = Len(warnings)
    /\ total_rows = i
    /\ \A k \in 0..(i - 1) : Kept(k) <=> ~Discarded(k)
    /\ i >= 1 => rows_to_keep[1] = RowAt(all_rows, 0)
    /\ spc = "done" =>
         /\ total_rows = Len(all_rows)
         /\ Len(outfile) + discarded_count = Len(all_rows)
         /\ Len(all_rows) > 0 => Len(outfile) > 0

C5_Witness == spc = "done" /\ discarded_count >= 2 /\ Len(outfile) >= 2

\* The column does not parse at row k or at row k - 1.
Unparsable(k, col) == ~Parses(k, col) \/ ~Parses(k - 1, col)

\* C8: a field that does not parse at record i or i-1 is never reported as an
\* outlier of record i, the other fields of record i are still evaluated, and so
\* are the records after it.
C8_UnparsableLocal ==
    /\ \A k \in 1..Len(all_rows), col \in NumericCols :
         (Processed(k) /\ Unparsable(k, col)) =>
            /\ col \notin DetailsOf(k)
            /\ \A other \in NumericCols \ {col} :
                 FieldIsolated(k, other) <=> other \in DetailsOf(k)
            /\ \A later \in (k + 1)..Len(all_rows), any \in NumericCols :
                 Processed(later) => (FieldIsolated(later, any) <=> any \in DetailsOf(later))
    /\ spc = "done" => total_rows = Len(all_rows)

\* A record with an unparsable first field, discarded for its second field.
C8_Witness ==
    \E k \in 1..Len(all_rows) :
        /\ Processed(k) /\ Unparsable(k, "maiz_ars")
        /\ FieldIsolated(k, "trigo_ars") /\ Discarded(k)

\* C10: record i is discarded exactly when at least one numeric column is an isolated
\* outlier there, the warning lists exactly those columns, and it is kept otherwise.
C10_AnyField ==
    \A k \in 1..Len(all_rows) : Processed(k) =>
        /\ Discarded(k) <=> \E col \in NumericCols : FieldIsolated(k, col)
        /\ Kept(k) <=> \A col \in NumericCols : ~FieldIsolated(k, col)
        /\ DetailsOf(k) = { col \in NumericCols : FieldIsolated(k, col) }

\* A record discarded for one column while the other did not move.
C10_Witness ==
    \E k \in 1..Len(all_rows) :
        /\ Processed(k) /\ Discarded(k)
        /\ FieldIsolated(k, "trigo_ars")
        /\ Parses(k, "maiz_ars") /\ Parses(k - 1, "maiz_ars")
        /\ Val(k, "maiz_ars") = Val(k - 1, "maiz_ars")


(***************************************************************************)
(* Properties of find_exchange_rate (under SpecAlign)                      *)
(***************************************************************************)

\* Date a is a calendar day before date b.
Earlier(a, b) ==
    \/ a[1] < b[1]
    \/ a[1] = b[1] /\ (a[2] < b[2] \/ (a[2] = b[2] /\ a[3] < b[3]))

\* The keys of the mapping before the date looked up.
EarlierKeys == { k \in DOMAIN exchange_rates : Earlier(k, lookup_date) }

\* C6: the result is R[d] when d is a key, else R[d'] for the latest key d' before
\* d, and None exactly when d is no key and no key is before d.
C6_NearestPrevious ==
    apc = "called" =>
        /\ lookup_date \in DOMAIN exchange_rates =>
             lookup_result = Some(exchange_rates[lookup_date])
        /\ (lookup_date \notin DOMAIN exchange_rates /\ EarlierKeys # {}) =>
             \E k \in EarlierKeys :
                /\ \A other \in EarlierKeys : other = k \/ Earlier(other, k)
                /\ lookup_result = Some(exchange_rates[k])
        /\ lookup_result = None <=>
             (lookup_date \notin DOMAIN exchange_rates /\ EarlierKeys = {})

\* A lookup between keys: two keys before the date, at different rates, one after.
C6_Witness ==
    /\ apc = "called"
    /\ lookup_date \notin DOMAIN exchange_rates
    /\ \E a, b \in EarlierKeys : Earlier(a, b) /\ exchange_rates[a] # exchange_rates[b]
    /\ \E k \in DOMAIN exchange_rates : Earlier(lookup_date, k)
    /\ lookup_result # None

(***************************************************************************)
(* Properties of build_prices_csv (under SpecBuild)                        *)
(***************************************************************************)

\* The entry has the cereal, with a price (precio, or estimativo for a precio of
\* '0.00') that is a number above zero.
HasPrice(data, cereal) ==
    /\ cereal \in DOMAIN data
    /\ ~PriceRaises(PriceStr(data[cereal]))
    /\ PriceFloat(PriceStr(data[cereal])) > 0

Complete(data) == \A n \in 1..Len(cereals) : HasPrice(data, cereals[n])

\* The mapping has a rate on the date or on a day before it.
Resolvable(d) == \E k \in DOMAIN exchange_rates : k = d \/ Earlier(k, d)

Written(d) == \E r \in 1..Len(csv_rows) : csv_rows[r].fecha = d

\* C7: every row written has a date on or after the cutoff, a resolved rate and three
\* prices above zero; the date of the current iteration is written only if it is on
\* or after the cutoff, its rate resolves and its entry is complete.
C7_StrictCompleteness ==
    /\ \A r \in 1..Len(csv_rows) :
         /\ ~Earlier(csv_rows[r].fecha, START_DATE)
         /\ Resolvable(csv_rows[r].fecha)
         /\ csv_rows[r].tipo_cambio_usd \in RateValues
         /\ csv_rows[r].maiz_ars > 0 /\ csv_rows[r].trigo_ars > 0 /\ csv_rows[r].soja_ars > 0
    /\ date_str # None =>
         (Written(date_str) <=>
            /\ ~Earlier(date_str, START_DATE)
            /\ Resolvable(date_str)
            /\ Complete(date_data))

\* After a row was written, a date with a rate and only its wheat missing is passed.
C7_Witness ==
    /\ Len(csv_rows) >= 1 /\ date_str # None
    /\ ~Earlier(date_str, START_DATE) /\ Resolvable(date_str)
    /\ HasPrice(date_data, "maiz") /\ HasPrice(date_data, "soja")
    /\ "trigo" \notin DOMAIN date_data
    /\ ~Written(date_str)

(***************************************************************************)
(* Properties of merge_events (under SpecMerge)                            *)
(***************************************************************************)

\* C9: every special event is in the merged output under its date with its own
\* description, also when a regular event falls on that date.
C9_SpecialCopiedAsIs ==
    mpc = "done" =>
        \A d \in DOMAIN special_events :
            d \in DOMAIN all_events /\ all_events[d] = special_events[d]

====
